---- MODULE Spec2Model ----
(***************************************************************************)
(* Model of seller.py: synchronisation of supplier stock and prices into   *)
(* an Ozon seller account.                                                 *)
(*                                                                         *)
(* Python strings that the code inspects character by character (prices,   *)
(* quantities) are sequences of one-character strings.  The Cyrillic       *)
(* letters of the source are transliterated ("r", "u", "b" for the rouble  *)
(* suffix); the code treats them only as non-digits.  Offer ids and        *)
(* supplier codes are opaque strings compared by equality.                 *)
(***************************************************************************)
EXTENDS Integers, Sequences, FiniteSets, TLC

(***************************************************************************)
(* Bounds of the model                                                     *)
(***************************************************************************)
\* most items the server delivers in ordinary (small) pages of one fetch
MaxItems == 2
\* most items in one ordinary page
MaxPage == 2
\* most rows of the supplier spreadsheet
MaxRecords == 2
\* size of the one large page the server can deliver (more than two stock batches)
BulkSize == 201
\* longest list and largest chunk size handed to divide on its own
MaxLen == 5
MaxN == 3

(***************************************************************************)
(* Program constants                                                       *)
(***************************************************************************)
\* main: divide(stocks, 100)
StockBatchSize == 100
\* main: divide(prices, 900)
PriceBatchSize == 900
\* create_stocks: stock = 100 for ">10"
ManyStock == 100

Min(a, b) == IF a < b THEN a ELSE b

(***************************************************************************)
(* Characters and strings                                                  *)
(***************************************************************************)
Digits == {"0", "1", "2", "3", "4", "5", "6", "7", "8", "9"}

DigitVal(c) ==
    CASE c = "0" -> 0 [] c = "1" -> 1 [] c = "2" -> 2 [] c = "3" -> 3
      [] c = "4" -> 4 [] c = "5" -> 5 [] c = "6" -> 6 [] c = "7" -> 7
      [] c = "8" -> 8 [] c = "9" -> 9

\* lst[i:j] of Python for 0 <= i <= j (indices are clamped to the length)
Slice(lst, i, j) == SubSeq(lst, Min(i, Len(lst)) + 1, Min(j, Len(lst)))

\* price.split(".")[0]: everything before the first "."
BeforeDot(s) ==
    LET dots == {i \in 1..Len(s) : s[i] = "."}
    IN  IF dots = {} THEN s
        ELSE SubSeq(s, 1, (CHOOSE i \in dots : \A k \in dots : i <= k) - 1)

\* re.sub("[^0-9]", "", s)
OnlyDigits(s) == SelectSeq(s, LAMBDA c : c \in Digits)

\* price_conversion of a str
price_conversion(price) == OnlyDigits(BeforeDot(price))

\* int(s) succeeds on a str of decimal digits (the inputs carry no sign,
\* blank or underscore)
IsNumeric(s) == Len(s) > 0 /\ \A i \in 1..Len(s) : s[i] \in Digits

RECURSIVE IntOf(_)
IntOf(s) ==
    IF Len(s) = 0 THEN 0
    ELSE 10 * IntOf(SubSeq(s, 1, Len(s) - 1)) + DigitVal(s[Len(s)])

(***************************************************************************)
(* Lists                                                                   *)
(***************************************************************************)
\* x in lst
In(x, lst) == \E i \in 1..Len(lst) : lst[i] = x

\* lst.remove(x) for x in lst: drops the first occurrence only
Remove(lst, x) ==
    LET i == CHOOSE k \in 1..Len(lst) :
                 lst[k] = x /\ \A m \in 1..(k - 1) : lst[m] # x
    IN  SubSeq(lst, 1, i - 1) \o SubSeq(lst, i + 1, Len(lst))

\* faulty variant: everything goes into one chunk, whatever n is
divide_whole(lst, n) == IF lst = <<>> THEN <<>> ELSE <<lst>>

\* faulty variant: the last chunk is dropped when it is shorter than n
RECURSIVE divide_from_full(_, _, _)
divide_from_full(lst, n, i) ==
    IF i + n > Len(lst) THEN <<>>
    ELSE <<Slice(lst, i, i + n)>> \o divide_from_full(lst, n, i + n)

divide_dropshort(lst, n) == divide_from_full(lst, n, 0)

\* for i in range(0, len(lst), n): yield lst[i : i + n]
RECURSIVE divide_from(_, _, _)
divide_from(lst, n, i) ==
    IF i >= Len(lst) THEN <<>>
    ELSE <<Slice(lst, i, i + n)>> \o divide_from(lst, n, i + n)

\* list(divide(lst, n))
divide(lst, n) == divide_from(lst, n, 0)

RECURSIVE Concat(_)
Concat(ss) == IF ss = <<>> THEN <<>> ELSE Head(ss) \o Concat(Tail(ss))

\* sequences over S of length at most n
SeqsUpTo(S, n) == UNION {[1..k -> S] : k \in 0..n}

(***************************************************************************)
(* Inputs: what the marketplace and the supplier can deliver               *)
(***************************************************************************)
\* offer ids of the items of ordinary pages
OfferIds == {"A", "X"}

\* items of the product list: dicts with an "offer_id" key
Products == {[offer_id |-> o] : o \in OfferIds}

\* one large page: the ids of the ordinary pages followed by further ids
BulkPage ==
    [i \in 1..BulkSize |->
        [offer_id |-> IF i = 1 THEN "A" ELSE IF i = 2 THEN "X" ELSE ToString(i)]]

\* number of items of product_list that came in ordinary pages
SmallLen(pl) == IF Len(pl) >= BulkSize THEN Len(pl) - BulkSize ELSE Len(pl)

\* the ordinary pages the server may answer with when product_list is pl
SmallPages(pl) ==
    {p \in SeqsUpTo(Products, MaxPage) : SmallLen(pl) + Len(p) <= MaxItems}

\* the pages the server may answer with when product_list is pl
Pages(pl) == SmallPages(pl) \cup (IF pl = <<>> THEN {BulkPage} ELSE {})

\* the "total" the server may report when the accumulated count is len
Totals(len) == {t \in {0, len - 1, len, len + 1} : t >= 0}

\* cursors the server hands back
LastIds == {"p1", "p2"}

\* "Cena" cells: a str, or a number cell (no split method)
StrPrice(chars) == [isstr |-> TRUE, val |-> chars]
FloatPrice == [isstr |-> FALSE, val |-> <<>>]
Price1234 == StrPrice(<<"1", "'", "2", "3", "4", ".", "5", "0", " ", "r">>)
Price100 == StrPrice(<<"1", "0", "0", ".", "0", "0">>)
Price5990 ==
    StrPrice(<<"5", "'", "9", "9", "0", ".", "0", "0", " ", "r", "u", "b">>)

\* the (quantity, price) cells of a spreadsheet row
Cells ==
    { <<(<<">", "1", "0">>), Price1234>>,
      <<(<<"1">>), Price100>>,
      <<(<<"7">>), Price5990>>,
      <<(<<"1", "2">>), FloatPrice>>,
      <<(<<"x">>), Price100>> }

\* rows of the spreadsheet: columns "Kod", "Kolichestvo", "Cena"
Records ==
    {[code |-> c, quantity |-> q[1], price |-> q[2]] : c \in OfferIds, q \in Cells}

RecordLists == SeqsUpTo(Records, MaxRecords)

(***************************************************************************)
(* Reconciliation                                                          *)
(***************************************************************************)
NoError == ""

\* the branches on count in create_stocks; int() raises on a non-number
StockValid(count) ==
    count = <<">", "1", "0">> \/ count = <<"1">> \/ IsNumeric(count)

stock_of(count) ==
    IF count = <<">", "1", "0">> THEN ManyStock
    ELSE IF count = <<"1">> THEN 0
    ELSE IntOf(count)

\* the first loop of create_stocks from record k on
RECURSIVE create_stocks_loop(_, _, _, _)
create_stocks_loop(watch_remnants, k, stocks, ids) ==
    IF k > Len(watch_remnants)
    THEN [err |-> NoError, stocks |-> stocks, offer_ids |-> ids]
    ELSE LET watch == watch_remnants[k]
         IN  IF In(watch.code, ids)
             THEN IF StockValid(watch.quantity)
                  THEN create_stocks_loop(
                           watch_remnants, k + 1,
                           Append(stocks, [offer_id |-> watch.code,
                                           stock |-> stock_of(watch.quantity)]),
                           Remove(ids, watch.code))
                  ELSE [err |-> "ValueError", stocks |-> stocks, offer_ids |-> ids]
             ELSE create_stocks_loop(watch_remnants, k + 1, stocks, ids)

\* create_stocks: the returned list (or the error raised) and offer_ids as
\* the call leaves it
create_stocks(watch_remnants, offer_ids) ==
    LET r == create_stocks_loop(watch_remnants, 1, <<>>, offer_ids)
    IN  IF r.err # NoError THEN r
        ELSE [r EXCEPT !.stocks =
                 r.stocks \o [i \in 1..Len(r.offer_ids) |->
                                 [offer_id |-> r.offer_ids[i], stock |-> 0]]]

\* create_prices from record k on; price_conversion raises on a non-str
RECURSIVE create_prices_loop(_, _, _, _)
create_prices_loop(watch_remnants, k, prices, offer_ids) ==
    IF k > Len(watch_remnants)
    THEN [err |-> NoError, prices |-> prices]
    ELSE LET watch == watch_remnants[k]
         IN  IF In(watch.code, offer_ids)
             THEN IF watch.price.isstr
                  THEN create_prices_loop(
                           watch_remnants, k + 1,
                           Append(prices,
                                  [auto_action_enabled |-> "UNKNOWN",
                                   currency_code |-> "RUB",
                                   offer_id |-> watch.code,
                                   old_price |-> <<"0">>,
                                   price |-> price_conversion(watch.price.val)]),
                           offer_ids)
                  ELSE [err |-> "AttributeError", prices |-> prices]
             ELSE create_prices_loop(watch_remnants, k + 1, prices, offer_ids)

create_prices(watch_remnants, offer_ids) ==
    create_prices_loop(watch_remnants, 1, <<>>, offer_ids)

(***************************************************************************)
(* Errors and their handlers in main                                       *)
(***************************************************************************)
\* what requests.post / session.get / raise_for_status can raise
NetworkErrors == {"ReadTimeout", "ConnectTimeout", "ConnectionError", "HTTPError"}

\* isinstance(exc, requests.exceptions.ConnectionError)
IsConnectionError(exc) == exc \in {"ConnectionError", "ConnectTimeout"}

TimeoutText == "Prevysheno vremya ozhidaniya..."
ConnectionText == "Oshibka soedineniya"
OtherText == "ERROR_2"

\* faulty variant: the catch-all clause comes first
except_clauses_catchall(exc) == <<exc, OtherText>>

\* the arguments of the print of the first except clause that matches exc
except_clauses(exc) ==
    IF exc = "ReadTimeout" THEN <<TimeoutText>>
    ELSE IF IsConnectionError(exc) THEN <<exc, ConnectionText>>
    ELSE <<exc, OtherText>>

(***************************************************************************)
(* State                                                                   *)
(***************************************************************************)
VARIABLES
    pc,             \* where main (or a driver of a single function) stands
    last_id,        \* get_offer_ids: the cursor of the next request
    product_list,   \* get_offer_ids: the items accumulated
    total,          \* get_offer_ids: the total of the latest response
    offer_ids,      \* the offer-id list object shared by the reconcilers
    watch_remnants, \* the supplier rows
    stocks,         \* main: result of create_stocks
    stock_batches,  \* main: list(divide(stocks, 100))
    si,             \* main: number of stock batches the loop has passed
    prices,         \* main: result of create_prices
    price_batches,  \* main: list(divide(prices, 900))
    pi,             \* main: number of price batches the loop has passed
    sent,           \* the marketplace: batches accepted, in order of arrival
    raised,         \* the exception that ended the run, if any
    printed,        \* what main printed
    calls,          \* driver of the reconcilers: the calls made so far
    lst,            \* driver of divide: the list
    n,              \* driver of divide: the chunk size
    chunks          \* driver of divide: list(divide(lst, n)), once taken

vars ==
    <<pc, last_id, product_list, total, offer_ids, watch_remnants, stocks,
      stock_batches, si, prices, price_batches, pi, sent, raised, printed,
      calls, lst, n, chunks>>

fetch_vars == <<last_id, product_list, total>>
stock_vars == <<stocks, stock_batches, si>>
price_vars == <<prices, price_batches, pi>>
driver_vars == <<calls, lst, n, chunks>>

NoTotal == -1

\* offer_ids as get_offer_ids builds it from product_list
OfferIdsOf(pl) == [i \in 1..Len(pl) |-> pl[i].offer_id]

Init ==
    /\ pc = "env"
    /\ last_id = ""
    /\ product_list = <<>>
    /\ total = NoTotal
    /\ offer_ids = <<>>
    /\ watch_remnants = <<>>
    /\ stocks = <<>>
    /\ stock_batches = <<>>
    /\ si = 0
    /\ prices = <<>>
    /\ price_batches = <<>>
    /\ pi = 0
    /\ sent = <<>>
    /\ raised = NoError
    /\ printed = <<>>
    /\ calls = <<>>
    /\ lst = <<>>
    /\ n = 1
    /\ chunks = <<>>

(***************************************************************************)
(* main                                                                    *)
(***************************************************************************)
\* an exception raised inside the try block: the matching except clause
\* prints and main returns
Except(exc) ==
    /\ raised' = exc
    /\ printed' = except_clauses(exc)
    /\ pc' = "reported"

\* env.str("SELLER_TOKEN"), env.str("CLIENT_ID"): outside the try block, a
\* missing variable ends the process with no except clause involved
LoadEnv ==
    /\ pc = "env"
    /\ \/ /\ pc' = "fetch_catalog"
          /\ UNCHANGED <<raised, printed>>
       \/ /\ pc' = "crashed"
          /\ raised' = "EnvError"
          /\ UNCHANGED printed
    /\ UNCHANGED <<fetch_vars, offer_ids, watch_remnants, stock_vars,
                   price_vars, sent, driver_vars>>

\* one turn of the loop of get_offer_ids: a request, its answer, the test
\* of the total; on the break the ids are extracted and returned
GetOfferIdsTurn(pages) ==
    /\ \/ \E items \in pages, lid \in LastIds :
            \E t \in Totals(Len(product_list) + Len(items)) :
              LET pl == product_list \o items
              IN  /\ product_list' = pl
                  /\ IF t = Len(pl)
                     THEN /\ offer_ids' = OfferIdsOf(pl)
                          /\ pc' = "download_stock"
                          /\ last_id' = ""
                          /\ total' = NoTotal
                     ELSE /\ total' = t
                          /\ last_id' = lid
                          /\ UNCHANGED <<offer_ids, pc>>
                  /\ UNCHANGED <<raised, printed>>
       \/ \E exc \in NetworkErrors \cup {"TypeError"} :
              /\ Except(exc)
              /\ UNCHANGED <<fetch_vars, offer_ids>>
    /\ UNCHANGED <<watch_remnants, stock_vars, price_vars, sent, driver_vars>>

FetchCatalog ==
    /\ pc = "fetch_catalog"
    /\ GetOfferIdsTurn(Pages(product_list))

\* watch_remnants = download_stock()
FetchSupplierData ==
    /\ pc = "download_stock"
    /\ \/ \E w \in RecordLists :
              /\ watch_remnants' = w
              /\ pc' = "create_stocks"
              /\ UNCHANGED <<raised, printed>>
       \/ \E exc \in NetworkErrors \cup {"BadZipFile"} :
              /\ Except(exc)
              /\ UNCHANGED watch_remnants
    /\ UNCHANGED <<fetch_vars, offer_ids, stock_vars, price_vars, sent,
                   driver_vars>>

\* stocks = create_stocks(watch_remnants, offer_ids) and the list of the
\* batches of the loop that follows
ReconcileStocks ==
    /\ pc = "create_stocks"
    /\ LET r == create_stocks(watch_remnants, offer_ids)
       IN  /\ offer_ids' = r.offer_ids
           /\ IF r.err = NoError
              THEN /\ stocks' = r.stocks
                   /\ stock_batches' = divide(r.stocks, StockBatchSize)
                   /\ pc' = "update_stocks"
                   /\ UNCHANGED <<si, raised, printed>>
              ELSE /\ Except(r.err)
                   /\ UNCHANGED stock_vars
    /\ UNCHANGED <<fetch_vars, watch_remnants, price_vars, sent, driver_vars>>

\* faulty variant: a failed batch is reported and the loop goes on
SubmitStockBatches_goon ==
    /\ pc = "update_stocks"
    /\ IF si < Len(stock_batches)
       THEN \/ /\ sent' = Append(sent, [kind |-> "stocks",
                                        batch |-> stock_batches[si + 1]])
               /\ si' = si + 1
               /\ UNCHANGED <<pc, raised, printed>>
            \/ \E exc \in NetworkErrors :
                   /\ raised' = exc
                   /\ printed' = except_clauses(exc)
                   /\ si' = si + 1
                   /\ UNCHANGED <<pc, sent>>
       ELSE /\ pc' = "create_prices"
            /\ UNCHANGED <<si, sent, raised, printed>>
    /\ UNCHANGED <<fetch_vars, offer_ids, watch_remnants, stocks,
                   stock_batches, price_vars, driver_vars>>

\* for some_stock in list(divide(stocks, 100)): update_stocks(some_stock, ...)
SubmitStockBatches ==
    /\ pc = "update_stocks"
    /\ IF si < Len(stock_batches)
       THEN \/ /\ sent' = Append(sent, [kind |-> "stocks",
                                        batch |-> stock_batches[si + 1]])
               /\ si' = si + 1
               /\ UNCHANGED <<pc, raised, printed>>
            \/ \E exc \in NetworkErrors :
                   /\ Except(exc)
                   /\ UNCHANGED <<si, sent>>
       ELSE /\ pc' = "create_prices"
            /\ UNCHANGED <<si, sent, raised, printed>>
    /\ UNCHANGED <<fetch_vars, offer_ids, watch_remnants, stocks,
                   stock_batches, price_vars, driver_vars>>

\* prices = create_prices(watch_remnants, offer_ids) and the list of the
\* batches of the loop that follows
ReconcilePrices ==
    /\ pc = "create_prices"
    /\ LET r == create_prices(watch_remnants, offer_ids)
       IN  IF r.err = NoError
           THEN /\ prices' = r.prices
                /\ price_batches' = divide(r.prices, PriceBatchSize)
                /\ pc' = "update_price"
                /\ UNCHANGED <<pi, raised, printed>>
           ELSE /\ Except(r.err)
                /\ UNCHANGED price_vars
    /\ UNCHANGED <<fetch_vars, offer_ids, watch_remnants, stock_vars, sent,
                   driver_vars>>

\* for some_price in list(divide(prices, 900)): update_price(some_price, ...)
SubmitPriceBatches ==
    /\ pc = "update_price"
    /\ IF pi < Len(price_batches)
       THEN \/ /\ sent' = Append(sent, [kind |-> "prices",
                                        batch |-> price_batches[pi + 1]])
               /\ pi' = pi + 1
               /\ UNCHANGED <<pc, raised, printed>>
            \/ \E exc \in NetworkErrors :
                   /\ Except(exc)
                   /\ UNCHANGED <<pi, sent>>
       ELSE /\ pc' = "done"
            /\ UNCHANGED <<pi, sent, raised, printed>>
    /\ UNCHANGED <<fetch_vars, offer_ids, watch_remnants, stock_vars, prices,
                   price_batches, driver_vars>>

Next ==
    \/ LoadEnv
    \/ FetchCatalog
    \/ FetchSupplierData
    \/ ReconcileStocks
    \/ SubmitStockBatches
    \/ ReconcilePrices
    \/ SubmitPriceBatches

Spec == Init /\ [][Next]_vars

(***************************************************************************)
(* main up to the return of get_offer_ids, against a seller account with   *)
(* few products.  The interpreter never stops between two statements, so   *)
(* the loop takes its next turn whenever it has one.                       *)
(***************************************************************************)
FetchSmallCatalog ==
    /\ pc = "fetch_catalog"
    /\ GetOfferIdsTurn(SmallPages(product_list))

FetchNext ==
    \/ LoadEnv
    \/ FetchSmallCatalog

FetchSpec == Init /\ [][FetchNext]_vars /\ WF_vars(FetchNext)

(***************************************************************************)
(* Driver of create_stocks and create_prices: one offer-id list object and *)
(* one list of supplier rows, handed to the two functions again and again  *)
(***************************************************************************)
\* most ids in the list handed to the reconcilers, most calls made on it
MaxIds == 3
MaxCalls == 2

DriverIds == {"A", "B", "X"}

ReconcileInit ==
    /\ pc = "reconcile"
    /\ offer_ids \in SeqsUpTo(DriverIds, MaxIds)
    /\ watch_remnants \in RecordLists
    /\ calls = <<>>
    /\ last_id = ""
    /\ product_list = <<>>
    /\ total = NoTotal
    /\ stocks = <<>>
    /\ stock_batches = <<>>
    /\ si = 0
    /\ prices = <<>>
    /\ price_batches = <<>>
    /\ pi = 0
    /\ sent = <<>>
    /\ raised = NoError
    /\ printed = <<>>
    /\ lst = <<>>
    /\ n = 1
    /\ chunks = <<>>

\* create_stocks(watch_remnants, offer_ids): the list object is left as the
\* call mutated it
CallCreateStocks ==
    /\ pc = "reconcile"
    /\ Len(calls) < MaxCalls
    /\ LET r == create_stocks(watch_remnants, offer_ids)
       IN  /\ calls' = Append(calls, [fn |-> "create_stocks", ids |-> offer_ids,
                                      err |-> r.err, out |-> r.stocks])
           /\ offer_ids' = r.offer_ids
    /\ UNCHANGED <<pc, fetch_vars, watch_remnants, stock_vars, price_vars, sent,
                   raised, printed, lst, n, chunks>>

\* create_prices(watch_remnants, offer_ids)
CallCreatePrices ==
    /\ pc = "reconcile"
    /\ Len(calls) < MaxCalls
    /\ LET r == create_prices(watch_remnants, offer_ids)
       IN  calls' = Append(calls, [fn |-> "create_prices", ids |-> offer_ids,
                                   err |-> r.err, out |-> r.prices])
    /\ UNCHANGED <<pc, fetch_vars, offer_ids, watch_remnants, stock_vars,
                   price_vars, sent, raised, printed, lst, n, chunks>>

ReconcileNext ==
    \/ CallCreateStocks
    \/ CallCreatePrices

ReconcileSpec == ReconcileInit /\ [][ReconcileNext]_vars

(***************************************************************************)
(* Driver of divide                                                        *)
(***************************************************************************)
Elems == {"a", "b"}

DivideInit ==
    /\ pc = "divide"
    /\ lst \in SeqsUpTo(Elems, MaxLen)
    /\ n \in 1..MaxN
    /\ chunks = <<>>
    /\ calls = <<>>
    /\ offer_ids = <<>>
    /\ watch_remnants = <<>>
    /\ last_id = ""
    /\ product_list = <<>>
    /\ total = NoTotal
    /\ stocks = <<>>
    /\ stock_batches = <<>>
    /\ si = 0
    /\ prices = <<>>
    /\ price_batches = <<>>
    /\ pi = 0
    /\ sent = <<>>
    /\ raised = NoError
    /\ printed = <<>>

\* chunks = list(divide(lst, n))
TakeChunks ==
    /\ pc = "divide"
    /\ chunks' = divide(lst, n)
    /\ pc' = "divided"
    /\ UNCHANGED <<fetch_vars, offer_ids, watch_remnants, stock_vars,
                   price_vars, sent, raised, printed, calls, lst, n>>

DivideNext == TakeChunks

DivideSpec == DivideInit /\ [][DivideNext]_vars

(***************************************************************************)
(* Properties                                                              *)
(***************************************************************************)
Range(f) == {f[i] : i \in DOMAIN f}

IsPrefix(s, t) == Len(s) <= Len(t) /\ SubSeq(t, 1, Len(s)) = s

\* the entries the marketplace accepted, of one kind, batch after batch
SentBatches(kind) ==
    LET of_kind == SelectSeq(sent, LAMBDA e : e.kind = kind)
    IN  [i \in 1..Len(of_kind) |-> of_kind[i].batch]

Submitted(kind) == Concat(SentBatches(kind))

\* the catalog as get_offer_ids returned it
Catalog == OfferIdsOf(product_list)

\* number of entries of a list of updates that carry offer id o
Count(updates, o) == Cardinality({i \in 1..Len(updates) : updates[i].offer_id = o})

\* C1: at the end of a run of main in which every step succeeded (all
\* prices being strings), the price batches submitted hold a PriceUpdate with the normalised price for every
\* supplier row whose code is an offer id of the fetched catalog; for the
\* catalog {X} and the single row (X, ">10", "1'234.50 r") the stocks
\* submitted are [{X, 100}] and the prices submitted are [{X, "1234"}].
C1_EndToEnd ==
    (pc = "done" /\ \A k \in 1..Len(watch_remnants) : watch_remnants[k].price.isstr) =>
        /\ \A k \in 1..Len(watch_remnants) :
               In(watch_remnants[k].code, Catalog) =>
                   \E j \in 1..Len(Submitted("prices")) :
                       /\ Submitted("prices")[j].offer_id = watch_remnants[k].code
                       /\ Submitted("prices")[j].price =
                              price_conversion(watch_remnants[k].price.val)
        /\ ( /\ Catalog = <<"X">>
             /\ watch_remnants =
                    <<[code |-> "X", quantity |-> <<">", "1", "0">>,
                       price |-> Price1234]>> ) =>
               /\ Submitted("stocks") = <<[offer_id |-> "X", stock |-> 100]>>
               /\ Len(Submitted("prices")) = 1
               /\ Submitted("prices")[1].offer_id = "X"
               /\ Submitted("prices")[1].price = <<"1", "2", "3", "4">>

\* C2: the list create_stocks returns holds exactly one StockUpdate for each
\* offer id of the catalog as it was at the call: none twice, none missing,
\* none from outside the catalog.
C2_OneStockPerOfferId ==
    \A c \in 1..Len(calls) :
        (calls[c].fn = "create_stocks" /\ calls[c].err = NoError) =>
            /\ \A o \in Range(calls[c].ids) : Count(calls[c].out, o) = 1
            /\ \A i \in 1..Len(calls[c].out) :
                   calls[c].out[i].offer_id \in Range(calls[c].ids)

\* C3: create_prices returns exactly one PriceUpdate for each offer id that
\* is in the catalog and is the code of some supplier row (also when several
\* rows carry the code), and none for any other offer id.
C3_OnePricePerMatchedId ==
    \A c \in 1..Len(calls) :
        (calls[c].fn = "create_prices" /\ calls[c].err = NoError) =>
            LET codes == {watch_remnants[k].code : k \in 1..Len(watch_remnants)}
                both == Range(calls[c].ids) \cap codes
            IN  /\ \A o \in both : Count(calls[c].out, o) = 1
                /\ \A i \in 1..Len(calls[c].out) : calls[c].out[i].offer_id \in both

\* C4: a second call of create_stocks (or of create_prices) with the same
\* rows and the same offer-id list object returns what the first call
\* returned.
C4_Idempotent ==
    \A i, j \in 1..Len(calls) :
        (i < j /\ calls[i].fn = calls[j].fn) =>
            /\ calls[i].err = calls[j].err
            /\ calls[i].out = calls[j].out

\* C5: the chunks of divide(lst, n), concatenated in the order yielded, are
\* lst; every chunk but the last has length n, the last has a length from 1
\* to n, and the empty list yields no chunk.
C5_DividePartition ==
    pc = "divided" =>
        /\ Concat(chunks) = lst
        /\ \A i \in 1..(Len(chunks) - 1) : Len(chunks[i]) = n
        /\ chunks # <<>> =>
               (Len(chunks[Len(chunks)]) >= 1 /\ Len(chunks[Len(chunks)]) <= n)
        /\ lst = <<>> => chunks = <<>>

\* a list that is cut into full chunks and a shorter last one
C5_Witness ==
    /\ pc = "divided"
    /\ Len(chunks) >= 2
    /\ Len(chunks[Len(chunks)]) < n

\* C6: when the submission of a batch fails in main, the error is reported,
\* the run is over and no batch of either kind is submitted afterwards; what
\* was submitted before stays submitted.
C6_AbortOnFirstFailure ==
    [][ /\ IsPrefix(sent, sent')
        /\ raised # NoError => sent' = sent
        /\ (pc \in {"update_stocks", "update_price"} /\ raised' # NoError) =>
               /\ sent' = sent
               /\ printed' # <<>>
               /\ pc' = "reported"
        /\ pc # "reported"
      ]_vars

\* the second or a later stock batch failed after earlier ones were accepted
C6_Witness ==
    /\ pc = "reported"
    /\ raised \in NetworkErrors
    /\ si >= 1
    /\ si < Len(stock_batches)
    /\ Len(sent) = si

\* C7: get_offer_ids always terminates: it returns or fails, and never goes
\* on requesting pages for ever.
C7_FetchTerminates == (pc = "fetch_catalog") ~> (pc # "fetch_catalog")

\* the categories of section 7 of the specification
Category(exc) ==
    IF exc \in {"ReadTimeout", "ConnectTimeout", "ConnectionError"}
    THEN "TransientNetwork"
    ELSE IF exc \in {"ValueError", "AttributeError"}
    THEN "ValidationFailure"
    ELSE "UnexpectedFailure"

TryErrors == NetworkErrors \cup {"TypeError", "BadZipFile", "ValueError", "AttributeError"}

\* the fixed text of a report
Diagnostic(report) == report[Len(report)]

\* C8 as stated: a failure inside main is reported with the diagnostic of
\* its category, which no failure of another category gets, and the run
\* ends.
C8_ThreeCategories ==
    pc = "reported" =>
        /\ printed # <<>>
        /\ \A other \in TryErrors :
               Category(other) # Category(raised) =>
                   Diagnostic(except_clauses(other)) # Diagnostic(printed)
        /\ ~ENABLED Next

\* C8 as amended: a failure raised inside the try block of main is reported
\* by the first except clause that matches it: a read timeout prints the
\* timeout text, a connection error (a connect timeout included) prints the
\* error and the connection text, anything else (a malformed quantity or
\* price as well as an unexpected failure) prints the error and "ERROR_2";
\* the three texts differ and the run ends after the report.
C8_ThreeHandlers ==
    pc = "reported" =>
        /\ raised \in TryErrors
        /\ printed =
               IF raised = "ReadTimeout" THEN <<TimeoutText>>
               ELSE IF raised \in {"ConnectionError", "ConnectTimeout"}
               THEN <<raised, ConnectionText>>
               ELSE <<raised, OtherText>>
        /\ Cardinality({TimeoutText, ConnectionText, OtherText}) = 3
        /\ ~ENABLED Next

\* a malformed quantity was reported with the text of the catch-all clause
C8_Witness ==
    /\ pc = "reported"
    /\ raised = "ValueError"
    /\ printed = <<"ValueError", OtherText>>

\* the rule of section 4.2 of the specification
Classified(count) ==
    IF count = <<">", "1", "0">> THEN 100
    ELSE IF count = <<"1">> THEN 0
    ELSE IntOf(count)

\* the rows that are the first of their code, the code being in ids
FirstMatches(ids) ==
    SelectSeq(
        [k \in 1..Len(watch_remnants) |->
            [k |-> k, code |-> watch_remnants[k].code,
             quantity |-> watch_remnants[k].quantity]],
        LAMBDA r : /\ In(r.code, ids)
                   /\ \A m \in 1..(r.k - 1) : watch_remnants[m].code # r.code)

\* C9: first match wins in create_stocks: the matched offer ids come first,
\* in the order of their first supplier rows and with the stock that row's
\* quantity classifies to; later rows of the same code add and change
\* nothing; then come the stock-0 entries of the catalog ids no row names.
C9_FirstMatchWins ==
    \A c \in 1..Len(calls) :
        (calls[c].fn = "create_stocks" /\ calls[c].err = NoError) =>
            LET first == FirstMatches(calls[c].ids)
                m == Len(first)
                matched == {first[i].code : i \in 1..m}
                out == calls[c].out
            IN  /\ Len(out) >= m
                /\ \A i \in 1..Min(m, Len(out)) :
                       /\ out[i].offer_id = first[i].code
                       /\ out[i].stock = Classified(first[i].quantity)
                /\ \A i \in (m + 1)..Len(out) :
                       /\ out[i].stock = 0
                       /\ out[i].offer_id \in Range(calls[c].ids) \ matched

StageOrder ==
    <<"env", "fetch_catalog", "download_stock", "create_stocks",
      "update_stocks", "create_prices", "update_price", "done">>

StageOf(p) == CHOOSE i \in 1..Len(StageOrder) : StageOrder[i] = p

\* what the marketplace has accepted, in every state of main: a beginning
\* of the stock batches, then a beginning of the price batches
C10_Inv ==
    /\ sent = [i \in 1..Len(SentBatches("stocks")) |->
                   [kind |-> "stocks", batch |-> SentBatches("stocks")[i]]]
              \o [i \in 1..Len(SentBatches("prices")) |->
                   [kind |-> "prices", batch |-> SentBatches("prices")[i]]]
    /\ IsPrefix(SentBatches("stocks"), stock_batches)
    /\ IsPrefix(SentBatches("prices"), price_batches)
    /\ SentBatches("prices") # <<>> => SentBatches("stocks") = stock_batches
    /\ \A i \in 1..Len(sent) :
           Len(sent[i].batch) <= (IF sent[i].kind = "stocks" THEN 100 ELSE 1000)
    /\ pc = "done" =>
           /\ SentBatches("stocks") = stock_batches
           /\ SentBatches("prices") = price_batches
           /\ Submitted("stocks") = stocks
           /\ Submitted("prices") = prices

====
